---- MODULE Spec2Model ----
\* Model of the grouped-ordering crate: the code generated by the
\* grouped_ordering! macro for one kind (label enum, ordering struct with
\* `groups` and `index_lookup`, TryFrom, Default, Deserialize, the literal
\* instantiation macro) and the runtime sort helper of src/lib.rs.
EXTENDS Integers, Sequences, FiniteSets, TLC

VARIABLES kind, grouped_ordering, call

vars == <<kind, grouped_ordering, call>>

\* ---------------------------------------------------------------- bounds
MaxItems == 4
MaxItemValue == 5
MaxExtra == 1

\* ------------------------------------------------------- option / result
None == <<>>
Some(x) == <<x>>
Ok(v) == [tag |-> "Ok", value |-> v]
Err(e) == [tag |-> "Err", error |-> e]
Panic(e) == [tag |-> "Panic", error |-> e]

\* ------------------------------------------------------------ the kinds
\* An identifier is the sequence of its characters.
A == <<"A">>
B == <<"B">>
C == <<"C">>
FooBar == <<"F", "o", "o", "B", "a", "r">>
Baz == <<"B", "a", "z">>

\* The declarations grouped_ordering!(Name, [..]) the model is run for:
\* the kind of the tests, a kind with multi-word labels, a one-label kind.
Kinds == {<<A, B, C>>, <<FooBar, Baz>>, <<A>>}

Range(s) == {s[i] : i \in 1..Len(s)}

\* the enum #group_enum_name: exactly the declared variants
group_enum(k) == Range(k)

\* #num_groups
num_groups(k) == Len(k)

\* the array type [#group_enum_name; #num_groups]
group_arrays(k) == [1..num_groups(k) -> group_enum(k)]

\* ------------------------------------------- serde rename_all = kebab-case
UpperChars == <<"A", "B", "C", "D", "E", "F", "G", "H", "I", "J", "K", "L", "M",
                "N", "O", "P", "Q", "R", "S", "T", "U", "V", "W", "X", "Y", "Z">>
LowerChars == <<"a", "b", "c", "d", "e", "f", "g", "h", "i", "j", "k", "l", "m",
                "n", "o", "p", "q", "r", "s", "t", "u", "v", "w", "x", "y", "z">>

is_uppercase(ch) == \E i \in 1..Len(UpperChars) : UpperChars[i] = ch

to_ascii_lowercase(ch) ==
    IF is_uppercase(ch)
    THEN LowerChars[CHOOSE i \in 1..Len(UpperChars) : UpperChars[i] = ch]
    ELSE ch

RECURSIVE snake_case_from(_, _)
snake_case_from(variant, i) ==
    IF i > Len(variant) THEN <<>>
    ELSE (IF i > 1 /\ is_uppercase(variant[i]) THEN <<"_">> ELSE <<>>)
         \o <<to_ascii_lowercase(variant[i])>>
         \o snake_case_from(variant, i + 1)

snake_case(variant) == snake_case_from(variant, 1)

replace(s, from, to) == [i \in 1..Len(s) |-> IF s[i] = from THEN to ELSE s[i]]

kebab_case(variant) == replace(snake_case(variant), "_", "-")

\* mutation: names are matched against the snake_case form
from_name_snake_case(name, k) ==
    IF \E i \in 1..Len(k) : snake_case(k[i]) = name
    THEN Ok(k[CHOOSE i \in 1..Len(k) : snake_case(k[i]) = name])
    ELSE Err([kind |-> "unknown_variant", name |-> name])

\* the variant a serialized name denotes (generated by derive(Deserialize)):
\* the first variant whose renamed name matches, else an unknown-variant error
from_name(name, k) ==
    IF \E i \in 1..Len(k) : kebab_case(k[i]) = name
    THEN Ok(k[CHOOSE i \in 1..Len(k) :
                 /\ kebab_case(k[i]) = name
                 /\ \A j \in 1..(i - 1) : kebab_case(k[j]) # name])
    ELSE Err([kind |-> "unknown_variant", name |-> name])

\* ------------------------------------------------------------- try_from
insert(map, key, value) ==
    [x \in (DOMAIN map) \cup {key} |-> IF x = key THEN value ELSE map[x]]

RECURSIVE collect_from(_, _, _)
collect_from(groups, i, map) ==
    IF i > Len(groups) THEN map
    ELSE collect_from(groups, i + 1, insert(map, groups[i], i - 1))

\* mutation: the enumeration starts at 1
collect_enumerate_from_one(groups) ==
    LET map == collect_from(groups, 1, <<>>) IN [g \in DOMAIN map |-> map[g] + 1]

\* groups.into_iter().enumerate().map(|(index, group)| (group, index)).collect()
collect(groups) == collect_from(groups, 1, <<>>)

len(map) == Cardinality(DOMAIN map)

\* mutation: the size check is missing
try_from_unchecked(groups, k) ==
    Ok([groups |-> groups, index_lookup |-> collect(groups)])

try_from(groups, k) ==
    LET index_lookup == collect(groups) IN
    IF len(index_lookup) < num_groups(k)
    THEN Err([kind |-> "String", msg |-> "Found duplicate groups"])
    ELSE Ok([groups |-> groups, index_lookup |-> index_lookup])

unwrap(r) == IF r.tag = "Ok" THEN r ELSE Panic(r.error)

\* mutation: the labels are taken in reverse declaration order
default_reversed(k) ==
    unwrap(try_from([i \in 1..Len(k) |-> k[Len(k) + 1 - i]], k))

default(k) == unwrap(try_from(k, k))

grouped_ordering_instance(groups, k) == unwrap(try_from(groups, k))

\* ---------------------------------------------------------- deserialize
\* <[Group; N] as Deserialize>::deserialize on a sequence of names: N
\* elements are read in order, a missing one is invalid_length, an element
\* that is no variant name is unknown_variant, and elements left over after
\* the N-th are rejected when the sequence is closed.
RECURSIVE deserialize_array_from(_, _, _, _)
deserialize_array_from(names, k, i, acc) ==
    IF i > num_groups(k)
    THEN IF Len(names) > num_groups(k)
         THEN Err([kind |-> "trailing_characters"])
         ELSE Ok(acc)
    ELSE IF i > Len(names)
         THEN Err([kind |-> "invalid_length", len |-> i - 1])
         ELSE LET v == from_name(names[i], k) IN
              IF v.tag = "Err" THEN v
              ELSE deserialize_array_from(names, k, i + 1, Append(acc, v.value))

\* mutation: elements after the N-th are ignored
deserialize_array_no_end_check(names, k) ==
    deserialize_array_from(
        SubSeq(names, 1, IF Len(names) < num_groups(k) THEN Len(names) ELSE num_groups(k)),
        k, 1, <<>>)

deserialize_array(names, k) == deserialize_array_from(names, k, 1, <<>>)

custom(msg) == [kind |-> "custom", msg |-> msg]

\* mutation: every failure is reported as the custom error
deserialize_one_error(names, k) ==
    LET array == deserialize_array(names, k) IN
    IF array.tag = "Err" THEN Err(custom("Expected all variants"))
    ELSE LET r == try_from(array.value, k) IN
         IF r.tag = "Err" THEN Err(custom("Expected all variants")) ELSE r

\* mutation: the result of try_from is unwrapped
deserialize_unwrap(names, k) ==
    LET array == deserialize_array(names, k) IN
    IF array.tag = "Err" THEN array ELSE unwrap(try_from(array.value, k))

deserialize(names, k) ==
    LET array == deserialize_array(names, k) IN
    IF array.tag = "Err" THEN array
    ELSE LET r == try_from(array.value, k) IN
         IF r.tag = "Err" THEN Err(custom("Expected all variants")) ELSE r

\* ------------------------------------------------------ ordering runtime
cmp(x, y) == IF x < y THEN "Less" ELSE IF x = y THEN "Equal" ELSE "Greater"

\* mutation: the rank of a is compared with itself
compare_first_only(self, a, b) == cmp(self.index_lookup[a], self.index_lookup[a])

compare(self, a, b) == cmp(self.index_lookup[a], self.index_lookup[b])

\* impl GroupedOrderable for u32 of the tests: self % n selects the label
map_to_grouped_ordering(item, k) == k[(item % num_groups(k)) + 1]

\* mutation: the tail element moves left by one place at most
insert_tail_one_step(prefix, x, self, k) ==
    IF prefix = <<>> THEN <<x>>
    ELSE LET last == prefix[Len(prefix)] IN
         IF compare(self, map_to_grouped_ordering(x, k),
                    map_to_grouped_ordering(last, k)) = "Less"
         THEN SubSeq(prefix, 1, Len(prefix) - 1) \o <<x, last>>
         ELSE Append(prefix, x)

\* mutation: the tail element also moves past elements it compares Equal to
RECURSIVE insert_tail_unstable(_, _, _, _)
insert_tail_unstable(prefix, x, self, k) ==
    IF prefix = <<>> THEN <<x>>
    ELSE LET last == prefix[Len(prefix)] IN
         IF compare(self, map_to_grouped_ordering(x, k),
                    map_to_grouped_ordering(last, k)) # "Greater"
         THEN Append(insert_tail_unstable(SubSeq(prefix, 1, Len(prefix) - 1), x, self, k), last)
         ELSE Append(prefix, x)

\* slice::sort_by on a short slice: stable insertion sort; the tail element
\* moves left while it compares Less than its left neighbour.
RECURSIVE insert_tail(_, _, _, _)
insert_tail(prefix, x, self, k) ==
    IF prefix = <<>> THEN <<x>>
    ELSE LET last == prefix[Len(prefix)] IN
         IF compare(self, map_to_grouped_ordering(x, k),
                    map_to_grouped_ordering(last, k)) = "Less"
         THEN Append(insert_tail(SubSeq(prefix, 1, Len(prefix) - 1), x, self, k), last)
         ELSE Append(prefix, x)

RECURSIVE sort_by_from(_, _, _, _, _)
sort_by_from(v, i, acc, self, k) ==
    IF i > Len(v) THEN acc
    ELSE sort_by_from(v, i + 1, insert_tail(acc, v[i], self, k), self, k)

sort_by_grouped_ordering(v, self, k) == sort_by_from(v, 1, <<>>, self, k)

\* --------------------------------------------------------------- inputs
SeqsUpTo(S, n) == UNION {[1..m -> S] : m \in 0..n}

\* names a serialized sequence may hold: the variant names of the kind, the
\* identifiers as declared (not renamed) and a name of no variant
NameAlphabet(k) == {kebab_case(l) : l \in group_enum(k)} \cup group_enum(k) \cup {<<"d">>}

TestNums == <<0, 1, 2, 3, 4, 5>>

Vecs == SeqsUpTo(0..MaxItemValue, MaxItems) \cup {TestNums}

\* ---------------------------------------------------------------- state
Init ==
    /\ kind \in Kinds
    /\ grouped_ordering = None
    /\ call = [op |-> "init"]

\* the caller is between two calls: nothing was called yet, or the value of
\* the last call was taken
Idle == call.op \in {"init", "return"}

Keep(r) == IF r.tag = "Ok" THEN Some(r.value) ELSE grouped_ordering

TryFrom ==
    /\ Idle
    /\ \E groups \in group_arrays(kind) :
          LET r == try_from(groups, kind) IN
          /\ call' = [op |-> "try_from", groups |-> groups, result |-> r]
          /\ grouped_ordering' = Keep(r)
    /\ UNCHANGED kind

Default ==
    /\ Idle
    /\ LET r == default(kind) IN
          /\ call' = [op |-> "default", result |-> r]
          /\ grouped_ordering' = Keep(r)
    /\ UNCHANGED kind

Instantiate ==
    /\ Idle
    /\ \E groups \in group_arrays(kind) :
          LET r == grouped_ordering_instance(groups, kind) IN
          /\ call' = [op |-> "instantiate", groups |-> groups, result |-> r]
          /\ grouped_ordering' = Keep(r)
    /\ UNCHANGED kind

Deserialize ==
    /\ Idle
    /\ \E names \in SeqsUpTo(NameAlphabet(kind), num_groups(kind) + MaxExtra) :
          LET r == deserialize(names, kind) IN
          /\ call' = [op |-> "deserialize", names |-> names, result |-> r]
          /\ grouped_ordering' = Keep(r)
    /\ UNCHANGED kind

Compare ==
    /\ Idle
    /\ grouped_ordering # None
    /\ \E a \in group_enum(kind), b \in group_enum(kind) :
          call' = [op |-> "compare", a |-> a, b |-> b,
                   result |-> compare(grouped_ordering[1], a, b)]
    /\ UNCHANGED <<kind, grouped_ordering>>

Sort ==
    /\ Idle
    /\ grouped_ordering # None
    /\ \E nums \in Vecs :
          call' = [op |-> "sort", input |-> nums,
                   output |-> sort_by_grouped_ordering(nums, grouped_ordering[1], kind)]
    /\ UNCHANGED <<kind, grouped_ordering>>

\* the caller takes the value of the call and goes on; a panic unwinds the
\* caller instead, which makes no further call
Return ==
    /\ ~Idle
    /\ call.op \in {"default", "instantiate"} => call.result.tag # "Panic"
    /\ call' = [op |-> "return"]
    /\ UNCHANGED <<kind, grouped_ordering>>

Next == TryFrom \/ Default \/ Instantiate \/ Deserialize \/ Compare \/ Sort \/ Return

Spec == Init /\ [][Next]_vars

\* ---------------------------------------------------------------- claims

\* C1: try_from on a permutation s of the kind's labels succeeds, and in the
\* instance index_lookup[s[i]] = i and groups[i] = s[i] for every position i
\* (0-based), so index_lookup is a bijection from the labels onto 0..n-1 and
\* groups is its inverse.
C1_PermutationRoundTrip ==
    (call.op = "try_from" /\ Range(call.groups) = group_enum(kind)) =>
        /\ call.result.tag = "Ok"
        /\ grouped_ordering = Some(call.result.value)
        /\ DOMAIN call.result.value.index_lookup = group_enum(kind)
        /\ {call.result.value.index_lookup[l] : l \in group_enum(kind)}
              = 0..(num_groups(kind) - 1)
        /\ \A i \in 0..(num_groups(kind) - 1) :
              /\ call.result.value.index_lookup[call.groups[i + 1]] = i
              /\ call.result.value.groups[i + 1] = call.groups[i + 1]

C1_Witness ==
    /\ kind = <<A, B, C>>
    /\ call.op = "try_from"
    /\ call.groups = <<C, A, B>>
    /\ call.result.tag = "Ok"
    /\ call.result.value.index_lookup[A] = 1
    /\ call.result.value.groups[0 + 1] = C

\* C2: try_from on an array in which a label occurs more than once returns
\* the duplicate-group error and no instance; an instance it returns is
\* never built from a non-injective array.
C2_DuplicatesRejected ==
    call.op = "try_from" =>
        /\ (\E i, j \in 1..Len(call.groups) : i < j /\ call.groups[i] = call.groups[j]) =>
              /\ call.result = Err([kind |-> "String", msg |-> "Found duplicate groups"])
              /\ grouped_ordering # None => grouped_ordering[1].groups # call.groups
        /\ call.result.tag = "Ok" =>
              \A i, j \in 1..Len(call.result.value.groups) :
                 i < j => call.result.value.groups[i] # call.result.value.groups[j]

C2_Witness ==
    /\ kind = <<A, B, C>>
    /\ call.op = "try_from"
    /\ call.groups = <<A, B, B>>
    /\ call.result.tag = "Err"

\* C3: sort_by_grouped_ordering leaves a reordering of the input (the same
\* multiset of items) in which, for all positions i < j, the group of item i
\* compares less or equal to the group of item j, that is the ranks of the
\* groups are non-decreasing.
C3_SortedByRank ==
    call.op = "sort" =>
        /\ Len(call.output) = Len(call.input)
        /\ \A x \in Range(call.input) \cup Range(call.output) :
              Cardinality({i \in 1..Len(call.output) : call.output[i] = x})
                 = Cardinality({i \in 1..Len(call.input) : call.input[i] = x})
        /\ \A i, j \in 1..Len(call.output) :
              i < j =>
                 /\ compare(grouped_ordering[1],
                            map_to_grouped_ordering(call.output[i], kind),
                            map_to_grouped_ordering(call.output[j], kind))
                       \in {"Less", "Equal"}
                 /\ \E p, q \in 1..num_groups(kind) :
                       /\ p <= q
                       /\ grouped_ordering[1].groups[p] = map_to_grouped_ordering(call.output[i], kind)
                       /\ grouped_ordering[1].groups[q] = map_to_grouped_ordering(call.output[j], kind)

C3_Witness ==
    /\ kind = <<A, B, C>>
    /\ grouped_ordering = Some([groups |-> <<A, B, C>>,
                                index_lookup |-> [l \in {A, B, C} |->
                                    IF l = A THEN 0 ELSE IF l = B THEN 1 ELSE 2]])
    /\ call.op = "sort"
    /\ call.input = <<0, 1, 2, 3, 4, 5>>
    /\ call.output = <<0, 3, 1, 4, 2, 5>>

\* C4: the sort is stable: the items of one group appear in the result in
\* the same relative order as in the input.
C4_SortStable ==
    call.op = "sort" =>
        \A l \in group_enum(kind) :
           SelectSeq(call.output, LAMBDA x : map_to_grouped_ordering(x, kind) = l)
              = SelectSeq(call.input, LAMBDA x : map_to_grouped_ordering(x, kind) = l)

C4_Witness ==
    /\ kind = <<A, B, C>>
    /\ grouped_ordering # None
    /\ grouped_ordering[1].groups = <<A, B, C>>
    /\ call.op = "sort"
    /\ call.input = <<1, 0, 4>>
    /\ call.output = <<0, 1, 4>>

\* C5: on a constructed instance the rank lookup is defined for every label
\* of the kind, and compare is the comparison of the ranks: Equal exactly
\* for a = b, Less one way exactly when Greater the other way, transitive,
\* and Less exactly when a stands before b in groups.
C5_CompareTotalOrder ==
    /\ grouped_ordering # None =>
          LET self == grouped_ordering[1] IN
          /\ DOMAIN self.index_lookup = group_enum(kind)
          /\ \A a, b \in group_enum(kind) :
                /\ compare(self, a, b) \in {"Less", "Equal", "Greater"}
                /\ compare(self, a, b) = "Equal" <=> a = b
                /\ compare(self, a, b) = "Less" <=> compare(self, b, a) = "Greater"
                /\ compare(self, a, b) = "Less" <=>
                      \E i, j \in 1..num_groups(kind) :
                         i < j /\ self.groups[i] = a /\ self.groups[j] = b
                /\ \A c \in group_enum(kind) :
                      (compare(self, a, b) = "Less" /\ compare(self, b, c) = "Less")
                         => compare(self, a, c) = "Less"
    /\ call.op = "compare" =>
          /\ call.result = cmp(grouped_ordering[1].index_lookup[call.a],
                               grouped_ordering[1].index_lookup[call.b])
          /\ call.result = "Equal" <=> call.a = call.b

C5_Witness ==
    /\ kind = <<A, B, C>>
    /\ grouped_ordering # None
    /\ grouped_ordering[1].groups = <<C, A, B>>
    /\ call.op = "compare"
    /\ call.a = A
    /\ call.b = C
    /\ call.result = "Greater"

\* C6: default construction never fails and yields the instance of the
\* declaration order: groups is the declaration order, the rank of the i-th
\* declared label is i, the same instance try_from gives for that order (so
\* every default construction yields the same ranks).
C6_DefaultIsDeclarationOrder ==
    call.op = "default" =>
        /\ call.result.tag = "Ok"
        /\ call.result.value.groups = kind
        /\ call.result.value.index_lookup
              = [l \in group_enum(kind) |-> (CHOOSE i \in 1..Len(kind) : kind[i] = l) - 1]
        /\ call.result = try_from(kind, kind)
        /\ grouped_ordering = Some(call.result.value)

C6_Witness ==
    /\ kind = <<A, B, C>>
    /\ call.op = "default"
    /\ call.result.tag = "Ok"
    /\ call.result.value.groups = <<A, B, C>>
    /\ call.result.value.index_lookup[C] = 2

\* C7: deserializing the names of a permutation s of the labels succeeds and
\* yields the instance try_from and the literal helper build from s, with
\* the same groups and ranks, hence the same sort results.
C7_DeserializeEqualsLiteral ==
    call.op = "deserialize" =>
        /\ \A s \in group_arrays(kind) :
              (/\ Range(s) = group_enum(kind)
               /\ call.names = [i \in 1..Len(s) |-> kebab_case(s[i])]) =>
                 /\ call.result.tag = "Ok"
                 /\ call.result = try_from(s, kind)
                 /\ call.result = grouped_ordering_instance(s, kind)
                 /\ call.result.value.groups = s
                 /\ \A i \in 1..Len(s) : call.result.value.index_lookup[s[i]] = i - 1
                 /\ sort_by_grouped_ordering(TestNums, call.result.value, kind)
                       = sort_by_grouped_ordering(TestNums, try_from(s, kind).value, kind)
        /\ (kind = <<A, B, C>> /\ call.names = <<<<"b">>, <<"a">>, <<"c">>>>) =>
              /\ call.result.tag = "Ok"
              /\ call.result.value.groups = <<B, A, C>>
        /\ (/\ kind = <<FooBar, Baz>>
            /\ call.names = <<<<"b", "a", "z">>, <<"f", "o", "o", "-", "b", "a", "r">>>>) =>
              /\ call.result.tag = "Ok"
              /\ call.result.value.groups = <<Baz, FooBar>>

C7_Witness ==
    /\ kind = <<A, B, C>>
    /\ call.op = "deserialize"
    /\ call.names = <<<<"b">>, <<"a">>, <<"c">>>>
    /\ call.result.tag = "Ok"
    /\ call.result.value.groups = <<B, A, C>>
    /\ sort_by_grouped_ordering(<<0, 1, 2, 3, 4, 5>>, call.result.value, kind)
          = <<1, 4, 0, 3, 2, 5>>

\* C8: deserializing a sequence whose length differs from n fails and gives
\* no instance; when every name is a label name the error is one about the
\* number of elements (too few: invalid length; too many: elements left
\* over), also when no name repeats.
C8_WrongLengthRejected ==
    (call.op = "deserialize" /\ Len(call.names) # num_groups(kind)) =>
        /\ call.result.tag = "Err"
        /\ (\A i \in 1..Len(call.names) :
               \E l \in group_enum(kind) : call.names[i] = kebab_case(l)) =>
              /\ call.result.error.kind \in {"invalid_length", "trailing_characters"}
              /\ Len(call.names) < num_groups(kind) =>
                    call.result.error = [kind |-> "invalid_length", len |-> Len(call.names)]
              /\ Len(call.names) > num_groups(kind) =>
                    call.result.error = [kind |-> "trailing_characters"]

C8_Witness ==
    /\ kind = <<A, B, C>>
    /\ call.op = "deserialize"
    /\ call.names = <<<<"a">>, <<"b">>>>
    /\ call.result = Err([kind |-> "invalid_length", len |-> 2])

\* C9: deserialization fails for a sequence of wrong length, for a sequence
\* of length n with a repeated name and for a sequence of length n with a
\* name that is no label name, and the three causes are reported with three
\* different errors.
C9_DistinctErrors ==
    call.op = "deserialize" =>
        LET known(i) == \E l \in group_enum(kind) : call.names[i] = kebab_case(l)
            wrong_length == /\ Len(call.names) # num_groups(kind)
                            /\ \A i \in 1..Len(call.names) : known(i)
            duplicate == /\ Len(call.names) = num_groups(kind)
                         /\ \A i \in 1..Len(call.names) : known(i)
                         /\ \E i, j \in 1..Len(call.names) :
                               i < j /\ call.names[i] = call.names[j]
            unknown == /\ Len(call.names) = num_groups(kind)
                       /\ \E i \in 1..Len(call.names) : ~known(i)
        IN
        /\ (wrong_length \/ duplicate \/ unknown) => call.result.tag = "Err"
        /\ wrong_length => call.result.error.kind \in {"invalid_length", "trailing_characters"}
        /\ duplicate => call.result.error = custom("Expected all variants")
        /\ unknown => call.result.error.kind = "unknown_variant"
        /\ call.result.tag = "Ok" => ~(wrong_length \/ duplicate \/ unknown)

C9_Witness ==
    /\ kind = <<A, B, C>>
    /\ call.op = "deserialize"
    /\ call.names = <<<<"a">>, <<"b">>, <<"b">>>>
    /\ call.result = Err([kind |-> "custom", msg |-> "Expected all variants"])

\* C10 as stated: on every construction path a validation failure is an
\* error value returned to the caller, never a panic, and an attempt ends
\* with a fully valid instance or with an error value.
C10_NeverPanics ==
    call.op \in {"try_from", "default", "deserialize", "instantiate"} =>
        call.result.tag \in {"Ok", "Err"}

\* C10 amended: try_from and deserialize return a validation failure as an
\* error value and default never fails; the literal helper unwraps the
\* result of try_from, so it panics exactly on a repeated label. An attempt
\* never yields a corrected or partial instance: an instance that is
\* returned or kept has the labels of the input, each once, and ranks that
\* invert groups.
C10_FailureIsErrorOrHelperPanic ==
    LET valid(inst) ==
            /\ Len(inst.groups) = num_groups(kind)
            /\ Range(inst.groups) = group_enum(kind)
            /\ DOMAIN inst.index_lookup = group_enum(kind)
            /\ \A i \in 1..Len(inst.groups) : inst.index_lookup[inst.groups[i]] = i - 1
    IN
    /\ grouped_ordering # None => valid(grouped_ordering[1])
    /\ call.op \in {"try_from", "default", "deserialize", "instantiate"} =>
          /\ call.result.tag = "Ok" =>
                valid(call.result.value) /\ grouped_ordering = Some(call.result.value)
          /\ call.op \in {"try_from", "deserialize"} => call.result.tag \in {"Ok", "Err"}
          /\ call.op = "default" => call.result.tag = "Ok"
          /\ (call.op \in {"try_from", "instantiate"} /\ call.result.tag = "Ok") =>
                call.result.value.groups = call.groups
          /\ call.op = "instantiate" =>
                /\ call.result.tag \in {"Ok", "Panic"}
                /\ call.result.tag = "Panic" <=>
                      \E i, j \in 1..Len(call.groups) :
                         i < j /\ call.groups[i] = call.groups[j]

C10_Witness ==
    /\ kind = <<A, B, C>>
    /\ call.op = "instantiate"
    /\ call.groups = <<A, A, B>>
    /\ call.result.tag = "Panic"

====
